---- MODULE Spec2Model ----
(***************************************************************************)
(* VisualNovelVM: the bytecode runtime (vm.py), the sprite surface         *)
(* (spritesurface.py) and the assembler (codegen.py).                      *)
(*                                                                         *)
(* Strings are kept as their UTF-8 byte sequences; a source token is a     *)
(* sequence of one-character strings.  Python lists and bytes are          *)
(* 0-indexed; the sequences below are 1-indexed, so byte offset i of the   *)
(* program is code[i + 1].                                                 *)
(***************************************************************************)
EXTENDS Integers, Sequences, FiniteSets, TLC

(***************************************************************************)
(* Bounds of the model.                                                    *)
(***************************************************************************)
\* Number of VMThread objects the host creates in one behaviour.
MaxThreads == 2
\* Number of calls the host makes into the Runtime in one behaviour.
MaxHostCalls == 3

(***************************************************************************)
(* vm.py module constants.                                                 *)
(***************************************************************************)
MAX_BANKS == 32
MAX_REGISTERS == 8

REGINT == 0
REGSTR == 1
LITINT == 2
LITSTR == 3

\* The empty sprite-bank slot (Python None).
None == [loaded |-> FALSE, alpha |-> 0]

(***************************************************************************)
(* Python integers are unbounded and the program's reach 2^32 - 1: an      *)
(* integer v is kept as hi * 2^16 + lo with lo in 0..65535, which is one   *)
(* representation per integer.                                             *)
(***************************************************************************)
Big(n) == [hi |-> n \div 65536, lo |-> n % 65536]
BigNorm(hi, lo) == [hi |-> hi + (lo \div 65536), lo |-> lo % 65536]
BigAdd(a, b) == BigNorm(a.hi + b.hi, a.lo + b.lo)
BigSub(a, b) == BigNorm(a.hi - b.hi, a.lo - b.lo)
BigMul10(a) == BigNorm(10 * a.hi, 10 * a.lo)
\* -1, 0 or 1
BigSign(a) == IF a.hi < 0 THEN -1 ELSE IF a.hi = 0 /\ a.lo = 0 THEN 0 ELSE 1
BigLess(a, b) == BigSign(BigSub(a, b)) < 0
\* The integer as a plain number, when it is within -2^16 .. 2^16 - 1.
BigIsSmall(a) == a.hi \in {-1, 0}
BigSmall(a) == a.hi * 65536 + a.lo

(***************************************************************************)
(* Python values: an int, or a str held as its UTF-8 bytes.                *)
(***************************************************************************)
IntV(n) == [k |-> "int", n |-> n, s |-> <<>>]
StrV(s) == [k |-> "str", n |-> Big(0), s |-> s]

\* list[i] of a list of length n < 2^16: is the index i accepted, and which
\* element it names.
PyInRange(i, n) == BigIsSmall(i) /\ -n <= BigSmall(i) /\ BigSmall(i) < n
PyIndex(i, n) == IF BigSmall(i) < 0 THEN BigSmall(i) + n ELSE BigSmall(i)

\* struct.pack("I", n) for 0 <= n < 2^32: four bytes, little-endian.
PackU32(n) == << n.lo % 256, n.lo \div 256, n.hi % 256, n.hi \div 256 >>
\* struct.pack("i", n) for -2^31 <= n < 2^31: two's complement, little-endian.
PackI32(n) == PackU32([hi |-> n.hi % 65536, lo |-> n.lo])
\* struct.unpack("I", b)[0]
UnpackU32(b) == [hi |-> b[3] + 256 * b[4], lo |-> b[1] + 256 * b[2]]

(***************************************************************************)
(* bytes.decode("utf-8"): is the byte sequence well-formed UTF-8.          *)
(***************************************************************************)
IsCont(b) == b >= 128 /\ b <= 191

RECURSIVE Utf8Valid(_)
Utf8Valid(b) ==
  IF b = <<>> THEN TRUE
  ELSE LET h == b[1]
           n == Len(b)
           Rest(k) == SubSeq(b, k + 1, n)
       IN  IF h < 128 THEN Utf8Valid(Rest(1))
           ELSE IF h >= 194 /\ h <= 223
             THEN n >= 2 /\ IsCont(b[2]) /\ Utf8Valid(Rest(2))
           ELSE IF h >= 224 /\ h <= 239
             THEN /\ n >= 3
                  /\ IsCont(b[2]) /\ IsCont(b[3])
                  /\ (h = 224 => b[2] >= 160)
                  /\ (h = 237 => b[2] <= 159)
                  /\ Utf8Valid(Rest(3))
           ELSE IF h >= 240 /\ h <= 244
             THEN /\ n >= 4
                  /\ IsCont(b[2]) /\ IsCont(b[3]) /\ IsCont(b[4])
                  /\ (h = 240 => b[2] >= 144)
                  /\ (h = 244 => b[2] <= 143)
                  /\ Utf8Valid(Rest(4))
           ELSE FALSE

(***************************************************************************)
(* VMThread.opcodes: opcode byte -> handler, with the handler's operands   *)
(* and its assembly name (asm_name, or __name__ when there is none).       *)
(***************************************************************************)
Handler(name, asm, ops) == [name |-> name, asm_name |-> asm, operands |-> ops]

opcodes ==
  [b \in 0..32 |->
    CASE b = 0  -> Handler("reset", "reset", <<>>)
      [] b = 1  -> Handler("loadspr", "loadspr", <<REGSTR, REGINT>>)
      [] b = 2  -> Handler("unloadspr", "unloadspr", <<REGINT>>)
      [] b = 3  -> Handler("fork", "fork", <<LITINT>>)
      [] b = 4  -> Handler("ret", "ret", <<>>)
      [] b = 5  -> Handler("call", "call", <<LITINT>>)
      [] b = 6  -> Handler("pushs", "pushs", <<REGSTR>>)
      [] b = 7  -> Handler("pops", "pops", <<REGSTR>>)
      [] b = 8  -> Handler("pushi", "pushi", <<REGINT>>)
      [] b = 9  -> Handler("popi", "popi", <<REGINT>>)
      [] b = 10 -> Handler("waitms", "wait", <<REGINT>>)
      [] b = 11 -> Handler("waithook", "wait", <<LITSTR>>)
      [] b = 12 -> Handler("fire", "fire", <<LITSTR>>)
      [] b = 13 -> Handler("say", "say", <<REGINT, REGSTR>>)
      [] b = 14 -> Handler("setls", "set", <<REGSTR, LITSTR>>)
      [] b = 15 -> Handler("setli", "set", <<REGINT, LITINT>>)
      [] b = 16 -> Handler("setrs", "set", <<REGSTR, REGSTR>>)
      [] b = 17 -> Handler("setri", "set", <<REGINT, REGINT>>)
      [] b = 18 -> Handler("show", "show", <<REGINT, REGINT>>)
      [] b = 19 -> Handler("layer", "layer", <<REGINT, REGINT>>)
      [] b = 20 -> Handler("attri", "attr", <<LITSTR, REGINT>>)
      [] b = 21 -> Handler("attrs", "attr", <<LITSTR, REGSTR>>)
      [] b = 22 -> Handler("openbank", "openbank", <<REGINT>>)
      [] b = 23 -> Handler("addr", "add", <<REGINT, REGINT>>)
      [] b = 24 -> Handler("subr", "sub", <<REGINT, REGINT>>)
      [] b = 25 -> Handler("concatl", "concat", <<REGSTR, LITSTR>>)
      [] b = 26 -> Handler("concatr", "concat", <<REGSTR, REGSTR>>)
      [] b = 27 -> Handler("cmp_iil", "cmp", <<REGINT, LITINT>>)
      [] b = 28 -> Handler("cmp_iir", "cmp", <<REGINT, REGINT>>)
      [] b = 29 -> Handler("jl", "jl", <<LITINT>>)
      [] b = 30 -> Handler("je", "je", <<LITINT>>)
      [] b = 31 -> Handler("jg", "jg", <<LITINT>>)
      [] OTHER  -> Handler("jmp", "jmp", <<LITINT>>)]

\* The opcode byte of the handler called name.
OpOf(name) == CHOOSE b \in DOMAIN opcodes : opcodes[b].name = name

(***************************************************************************)
(* codegen.py: the assembler.  A line is the list of tokens shlex.split    *)
(* returned for it; a token is a sequence of one-character strings.        *)
(***************************************************************************)
\* The characters with code points 32..126, in order (the backquote, which
\* no source of the model uses, is spelled out).
AsciiPrintable ==
  <<      " ", "!", "\"", "#", "$", "%", "&", "'", "(", ")", "*", "+",
     ",", "-", ".", "/", "0", "1", "2", "3", "4", "5", "6", "7",
     "8", "9", ":", ";", "<", "=", ">", "?", "@", "A", "B", "C",
     "D", "E", "F", "G", "H", "I", "J", "K", "L", "M", "N", "O",
     "P", "Q", "R", "S", "T", "U", "V", "W", "X", "Y", "Z", "[",
     "\\", "]", "^", "_", "backquote", "a", "b", "c", "d", "e", "f", "g",
     "h", "i", "j", "k", "l", "m", "n", "o", "p", "q", "r", "s",
     "t", "u", "v", "w", "x", "y", "z", "{", "|", "}", "~" >>

\* ord(c) of a one-character string.
Ord(c) == 31 + (CHOOSE i \in 1..Len(AsciiPrintable) : AsciiPrintable[i] = c)

\* token.encode("utf-8")
Encode(token) == [i \in 1..Len(token) |-> Ord(token[i])]

\* The token as one string, to look it up in the mnemonic table.
RECURSIVE Join(_)
Join(token) == IF token = <<>> THEN "" ELSE Head(token) \o Join(Tail(token))

Digits == {"0", "1", "2", "3", "4", "5", "6", "7", "8", "9"}

\* str.isnumeric()
IsNumeric(token) == token # <<>> /\ \A i \in 1..Len(token) : token[i] \in Digits

RECURSIVE DigitsValue(_)
DigitsValue(token) ==
  IF token = <<>> THEN Big(0)
  ELSE BigAdd(BigMul10(DigitsValue(SubSeq(token, 1, Len(token) - 1))),
              Big(Ord(token[Len(token)]) - 48))

\* int(token): does it parse, and to what.
IsInt(token) ==
  /\ token # <<>>
  /\ IF token[1] \in {"-", "+"} THEN IsNumeric(Tail(token)) ELSE IsNumeric(token)
IntOf(token) ==
  IF token[1] = "-" THEN BigSub(Big(0), DigitsValue(Tail(token)))
  ELSE IF token[1] = "+" THEN DigitsValue(Tail(token))
  ELSE DigitsValue(token)

\* The mnemonic table: assembly name -> the opcodes that carry it, in the
\* order of VMThread.opcodes.
RECURSIVE Ascending(_)
Ascending(S) ==
  IF S = {} THEN <<>>
  ELSE LET m == CHOOSE x \in S : \A y \in S : x <= y
       IN  <<m>> \o Ascending(S \ {m})

Mnemonics == {opcodes[b].asm_name : b \in DOMAIN opcodes}
asm_opcodes ==
  [name \in Mnemonics |->
     Ascending({b \in DOMAIN opcodes : opcodes[b].asm_name = name})]

\* The assembler's variables before the first line.  status is "ok" while
\* assembling, "error" after an AssemblyError and "crash" after any other
\* exception; nothing is written to the output file unless it is "ok".
AsmInit ==
  [output |-> <<>>, procedures |-> <<>>, procedure_refs |-> <<>>,
   starts |-> <<>>, status |-> "ok", message |-> "", line_no |-> 0]

\* tokens[:tokens.index(';')]
StripSemicolon(tokens) ==
  IF \E i \in 1..Len(tokens) : tokens[i] = <<";">>
  THEN LET i == CHOOSE j \in 1..Len(tokens) :
                  /\ tokens[j] = <<";">>
                  /\ \A k \in 1..(j - 1) : tokens[k] # <<";">>
       IN  SubSeq(tokens, 1, i - 1)
  ELSE tokens

\* One operand of one interpretation: the bytes appended to buffer and the
\* procedure reference recorded, if any.  at is len(output) + len(buffer).
EncodeOperand(token, operand_type, at) ==
  LET Ok(bytes, refs) == [status |-> "ok", bytes |-> bytes, refs |-> refs,
                          message |-> ""]
      Bad(status, message) == [status |-> status, bytes |-> <<>>, refs |-> <<>>,
                               message |-> message]
      Register(letter) ==
        IF ~IsNumeric(IF token = <<>> THEN <<>> ELSE Tail(token))
           \/ token[1] # letter
        THEN Bad("error", "is not a register")
        ELSE IF BigLess(Big(255), DigitsValue(Tail(token)))
        THEN Bad("crash", "ValueError: byte must be in range(0, 256)")
        ELSE Ok(<<BigSmall(DigitsValue(Tail(token)))>>, <<>>)
  IN  CASE operand_type = REGINT -> Register("i")
        [] operand_type = REGSTR -> Register("s")
        [] operand_type = LITINT ->
             IF IsInt(token)
             THEN IF IntOf(token).hi < -32768 \/ IntOf(token).hi > 32767
                  THEN Bad("crash", "struct.error")
                  ELSE Ok(PackI32(IntOf(token)), <<>>)
             ELSE IF token = <<>>
             THEN Bad("crash", "IndexError")
             ELSE IF token[1] = "@"
             THEN Ok(PackU32(Big(0)), << [location |-> at, name |-> Tail(token)] >>)
             ELSE Bad("error", "is not a number or procedure")
        [] OTHER -> Ok(Encode(token) \o <<0>>, <<>>)

\* for token, operand_type in zip(tokens[1:], operands): the operands from
\* the k-th on, appended to buffer; refs are the references recorded so far.
RECURSIVE EncodeOperands(_, _, _, _, _, _)
EncodeOperands(tokens, operands, k, buffer, refs, output_len) ==
  IF k > Len(operands) \/ k + 1 > Len(tokens)
  THEN [status |-> "ok", buffer |-> buffer, refs |-> refs, message |-> ""]
  ELSE LET r == EncodeOperand(tokens[k + 1], operands[k], output_len + Len(buffer))
       IN  IF r.status = "ok"
           THEN EncodeOperands(tokens, operands, k + 1, buffer \o r.bytes,
                               refs \o r.refs, output_len)
           ELSE [status |-> r.status, buffer |-> buffer, refs |-> refs \o r.refs,
                 message |-> r.message]

\* for interpretation in opcodes[opname]: the candidates from the c-th on.
RECURSIVE TryInterpretations(_, _, _, _)
TryInterpretations(st, tokens, candidates, c) ==
  LET opval == candidates[c]
      r == EncodeOperands(tokens, opcodes[opval].operands, 1, <<opval>>, <<>>,
                          Len(st.output))
      recorded == [st EXCEPT !.procedure_refs = @ \o r.refs]
  IN  IF r.status = "ok"
      THEN [recorded EXCEPT !.starts = Append(@, Len(st.output)),
                            !.output = @ \o r.buffer]
      ELSE IF r.status = "crash" \/ c = Len(candidates)
      THEN [recorded EXCEPT !.status = r.status, !.message = r.message]
      ELSE TryInterpretations(recorded, tokens, candidates, c + 1)

\* The body of the loop over the lines, for one line.
AssembleLine(st, line, line_no) ==
  LET tokens == StripSemicolon(line)
      at == [st EXCEPT !.line_no = line_no]
  IN  IF Len(tokens) = 0 THEN st
      ELSE IF Len(tokens) = 1 /\ tokens[1] = <<>>
      THEN [at EXCEPT !.status = "crash", !.message = "IndexError"]
      ELSE IF Len(tokens) = 1 /\ tokens[1][Len(tokens[1])] = ":"
      THEN LET procedure_name == SubSeq(tokens[1], 1, Len(tokens[1]) - 1)
           IN  IF procedure_name \notin DOMAIN st.procedures
               THEN [st EXCEPT !.procedures =
                                 (procedure_name :> Len(st.output)) @@ @]
               ELSE [at EXCEPT !.status = "error",
                               !.message = "duplicate procedure"]
      ELSE IF Join(tokens[1]) \notin DOMAIN asm_opcodes
      THEN [at EXCEPT !.status = "error", !.message = "invalid opcode"]
      ELSE LET r == TryInterpretations(st, tokens, asm_opcodes[Join(tokens[1])], 1)
           IN  IF r.status = "ok" THEN r ELSE [r EXCEPT !.line_no = line_no]

RECURSIVE AssembleLines(_, _, _)
AssembleLines(st, lines, n) ==
  IF n > Len(lines) \/ st.status # "ok" THEN st
  ELSE AssembleLines(AssembleLine(st, lines[n], n - 1), lines, n + 1)

\* A resolution that computes each patched output and does not keep it.
ResolveRefs_discarded(st, n) ==
  IF \A r \in n..Len(st.procedure_refs) :
       st.procedure_refs[r].name \in DOMAIN st.procedures
  THEN st
  ELSE [st EXCEPT !.status = "error", !.line_no = 0,
                  !.message = "procedure not found"]

\* Replace the procedure references with the actual addresses.
RECURSIVE ResolveRefs(_, _)
ResolveRefs(st, n) ==
  IF n > Len(st.procedure_refs) \/ st.status # "ok" THEN st
  ELSE LET location == st.procedure_refs[n].location
           name == st.procedure_refs[n].name
       IN  IF name \in DOMAIN st.procedures
           THEN ResolveRefs(
                  [st EXCEPT !.output =
                     SubSeq(@, 1, location)
                     \o PackU32(Big(st.procedures[name]))
                     \o SubSeq(@, location + 5, Len(@))], n + 1)
           ELSE [st EXCEPT !.status = "error", !.line_no = 0,
                           !.message = "procedure not found"]

\* The whole run of the assembler on the lines of its input file.
Assemble(lines) == ResolveRefs(AssembleLines(AsmInit, lines, 1), 1)

(***************************************************************************)
(* vm.py: the state of the runtime.                                        *)
(***************************************************************************)
VARIABLES
  prog,         \* the name of the program that was loaded
  code,         \* Runtime.code: the program's bytes
  sprite_bank,  \* Runtime.sprite_bank: slot -> None or a SpriteSurface
  threads,      \* Runtime.threads: the VMThread objects, as indices into thr
  thr,          \* every VMThread object created so far
  hook_wait,    \* history: per thread, the hook name of a waithook it executed
                \* beside a runnable thread and that nobody has fired since
  hostpc,       \* where the host (main thread) is inside a Runtime method
  hostnew,      \* the VMThread the host has started and not yet appended
  hostResult,   \* how the host's last call into the Runtime ended
  hostCalls,    \* how many calls the host has made
  assembly      \* the assembler's run: its variables, the line it is at
                \* and how far it has come

vars == << prog, code, sprite_bank, threads, thr, hook_wait,
           hostpc, hostnew, hostResult, hostCalls, assembly >>

\* self.code[i]
CodeAt(i) == code[i + 1]

\* VMThread.__init__ followed by Thread.start(): the new thread is at the
\* head of the loop of run().  phase is the thread's position: "loop" at
\* `while self.running`, "exec" between the decode and the handler's call,
\* "clear" inside Runtime.reset between the loop and the clear, "done" after
\* the loop, "faulted" after an exception left run(), "collected" once the
\* object is gone.  ipc, op and args are
\* the locals of run(): the offset of the opcode fetched last, the opcode
\* and its decoded arguments.  pc is an integer like any other (a jump can
\* set it to any 32-bit literal); ipc is an offset inside the program.
VMThread(pc) ==
  [pc |-> pc, str_stack |-> <<>>, int_stack |-> <<>>, call_stack |-> <<>>,
   regints |-> [i \in 0..(MAX_REGISTERS - 1) |-> Big(0)],
   regstrs |-> [i \in 0..(MAX_REGISTERS - 1) |-> <<>>],
   attr_list |-> <<>>, comparator |-> Big(0), running |-> TRUE,
   phase |-> "loop", ipc |-> -1, op |-> -1, args |-> <<>>]

\* An exception handler that stops the thread it ends.
Raise_stops(self) == [self EXCEPT !.phase = "faulted", !.running = FALSE]

\* An exception leaves the handler: run() ends, running stays as it is.
Raise(self) == [self EXCEPT !.phase = "faulted"]

\* The operand decoder of run(): the operands from the k-th on.
RECURSIVE DecodeOperands(_, _, _, _)
DecodeOperands(operands, k, newpc, args) ==
  IF k > Len(operands) THEN [ok |-> TRUE, newpc |-> newpc, args |-> args]
  ELSE LET Fail == [ok |-> FALSE, newpc |-> newpc, args |-> args]
       IN  CASE operands[k] \in {REGINT, REGSTR} ->
                  IF newpc + 1 >= Len(code) THEN Fail
                  ELSE DecodeOperands(operands, k + 1, newpc + 1,
                                      Append(args, IntV(Big(CodeAt(newpc + 1)))))
             [] operands[k] = LITINT ->
                  IF newpc + 4 >= Len(code) THEN Fail
                  ELSE DecodeOperands(operands, k + 1, newpc + 4,
                         Append(args,
                                IntV(UnpackU32(SubSeq(code, newpc + 2, newpc + 5)))))
             [] OTHER ->
                  IF \A j \in newpc..(Len(code) - 1) : CodeAt(j) # 0 THEN Fail
                  ELSE LET end == CHOOSE j \in newpc..(Len(code) - 1) :
                                    /\ CodeAt(j) = 0
                                    /\ \A i \in newpc..(j - 1) : CodeAt(i) # 0
                           new_str == SubSeq(code, newpc + 1, end)
                       IN  IF ~Utf8Valid(new_str) THEN Fail
                           ELSE DecodeOperands(operands, k + 1, end,
                                               Append(args, StrV(new_str)))

\* run() whose loop does not test self.running.
run_ignores_stop(self) ==
  IF ~PyInRange(self.pc, Len(code)) THEN Raise(self)
  ELSE LET at == BigSmall(self.pc)
           b == CodeAt(PyIndex(self.pc, Len(code)))
       IN  IF b \notin DOMAIN opcodes THEN Raise(self)
           ELSE LET d == DecodeOperands(opcodes[b].operands, 1, at, <<>>)
                IN  IF ~d.ok THEN Raise(self)
                    ELSE [self EXCEPT !.ipc = at, !.op = b, !.args = d.args,
                                      !.pc = Big(d.newpc), !.phase = "exec"]

\* One test of `while self.running` and, when it passes, the fetch and the
\* decode of one instruction, up to `self.pc = newpc`.
run(self) ==
  IF ~self.running THEN [self EXCEPT !.phase = "done"]
  ELSE IF ~PyInRange(self.pc, Len(code)) THEN Raise(self)
  ELSE LET at == BigSmall(self.pc)
           b == CodeAt(PyIndex(self.pc, Len(code)))
       IN  IF b \notin DOMAIN opcodes THEN Raise(self)
           ELSE LET d == DecodeOperands(opcodes[b].operands, 1, at, <<>>)
                IN  IF ~d.ok THEN Raise(self)
                    ELSE [self EXCEPT !.ipc = at, !.op = b, !.args = d.args,
                                      !.pc = Big(d.newpc), !.phase = "exec"]

\* The handler returned: `self.pc += 1`, back to the head of the loop.
Completed(self) ==
  IF self.phase = "exec"
  THEN [self EXCEPT !.pc = BigAdd(@, Big(1)), !.phase = "loop"]
  ELSE self

\* stop that also sends the thread back to the start of the program.
stop_and_rewind(self) == [self EXCEPT !.running = FALSE, !.pc = Big(0)]

\* VMThread.stop
stop(self) == [self EXCEPT !.running = FALSE]

(***************************************************************************)
(* The opcode handlers that touch the executing thread only.               *)
(***************************************************************************)
BadReg(r) == r >= MAX_REGISTERS

\* ret that reads the return address and leaves it on the call stack.
ret_keeps_frame(self) ==
  IF self.call_stack = <<>> THEN Raise(self)
  ELSE [self EXCEPT !.pc = self.call_stack[Len(self.call_stack)]]

ret(self) ==
  IF self.call_stack = <<>> THEN Raise(self)
  ELSE [self EXCEPT !.pc = self.call_stack[Len(self.call_stack)],
                    !.call_stack = SubSeq(@, 1, Len(@) - 1)]

call(self, litint_procedure) ==
  [self EXCEPT !.call_stack = Append(@, self.pc),
               !.pc = BigSub(litint_procedure, Big(1))]

pushs(self, regstr) ==
  IF BadReg(regstr) THEN Raise(self)
  ELSE [self EXCEPT !.str_stack = Append(@, self.regstrs[regstr])]

pops(self, regstr) ==
  IF self.str_stack = <<>> THEN Raise(self)
  ELSE LET popped == [self EXCEPT !.str_stack = SubSeq(@, 1, Len(@) - 1)]
       IN  IF BadReg(regstr) THEN Raise(popped)
           ELSE [popped EXCEPT !.regstrs[regstr] =
                                  self.str_stack[Len(self.str_stack)]]

pushi(self, regint) ==
  IF BadReg(regint) THEN Raise(self)
  ELSE [self EXCEPT !.int_stack = Append(@, self.regints[regint])]

\* popi that reads 0 from an empty stack.
popi_zero(self, regint) ==
  IF BadReg(regint) THEN Raise(self)
  ELSE IF self.int_stack = <<>> THEN [self EXCEPT !.regints[regint] = Big(0)]
  ELSE [self EXCEPT !.int_stack = SubSeq(@, 1, Len(@) - 1),
                    !.regints[regint] = self.int_stack[Len(self.int_stack)]]

popi(self, regint) ==
  IF self.int_stack = <<>> THEN Raise(self)
  ELSE LET popped == [self EXCEPT !.int_stack = SubSeq(@, 1, Len(@) - 1)]
       IN  IF BadReg(regint) THEN Raise(popped)
           ELSE [popped EXCEPT !.regints[regint] =
                                  self.int_stack[Len(self.int_stack)]]

waitms(self, regint_millsecs) == self

\* waithook that parks the thread whatever the other threads do.
waithook_parks(self, litstr_hookname) == [self EXCEPT !.phase = "parked"]

waithook(self, litstr_hookname) == self

fire(self, litstr_hookname) == self

say(self, regint_char_banknum, regstr_message) == self

setls(self, regstr, litstr) ==
  IF BadReg(regstr) THEN Raise(self)
  ELSE [self EXCEPT !.regstrs[regstr] = litstr]

setli(self, regint, litint) ==
  IF BadReg(regint) THEN Raise(self)
  ELSE [self EXCEPT !.regints[regint] = litint]

setrs(self, regstr1, regstr2) ==
  IF BadReg(regstr1) \/ BadReg(regstr2) THEN Raise(self)
  ELSE [self EXCEPT !.regstrs[regstr1] = self.regstrs[regstr2]]

setri(self, regint1, regint2) ==
  IF BadReg(regint1) \/ BadReg(regint2) THEN Raise(self)
  ELSE [self EXCEPT !.regints[regint1] = self.regints[regint2]]

layer(self, regint_banknum, regint_layer) == self

attri(self, litstr_attribute_name, regint_attribute_value) ==
  IF BadReg(regint_attribute_value) THEN Raise(self)
  ELSE [self EXCEPT !.attr_list =
          (litstr_attribute_name :> IntV(self.regints[regint_attribute_value]))
          @@ @]

attrs(self, litstr_attribute_name, regstr_attribute_value) ==
  IF BadReg(regstr_attribute_value) THEN Raise(self)
  ELSE [self EXCEPT !.attr_list =
          (litstr_attribute_name :> StrV(self.regstrs[regstr_attribute_value]))
          @@ @]

addr(self, regint1, regint2) ==
  IF BadReg(regint1) \/ BadReg(regint2) THEN Raise(self)
  ELSE [self EXCEPT !.regints[regint1] = BigAdd(@, self.regints[regint2])]

subr(self, regint1, regint2) ==
  IF BadReg(regint1) \/ BadReg(regint2) THEN Raise(self)
  ELSE [self EXCEPT !.regints[regint1] = BigAdd(@, self.regints[regint2])]

concatl(self, regstr, litstr) ==
  IF BadReg(regstr) THEN Raise(self)
  ELSE [self EXCEPT !.regstrs[regstr] = @ \o litstr]

concatr(self, regstr1, regstr2) ==
  IF BadReg(regstr1) \/ BadReg(regstr2) THEN Raise(self)
  ELSE [self EXCEPT !.regstrs[regstr1] = @ \o self.regstrs[regstr2]]

cmp_iil(self, regint, litint) ==
  IF BadReg(regint) THEN Raise(self)
  ELSE [self EXCEPT !.comparator = BigSub(self.regints[regint], litint)]

cmp_iir(self, regint1, regint2) ==
  IF BadReg(regint1) \/ BadReg(regint2) THEN Raise(self)
  ELSE [self EXCEPT !.comparator =
                      BigSub(self.regints[regint1], self.regints[regint2])]

jl(self, litint) ==
  IF BigSign(self.comparator) < 0
  THEN [self EXCEPT !.pc = BigSub(litint, Big(1))] ELSE self

je(self, litint) ==
  IF BigSign(self.comparator) = 0
  THEN [self EXCEPT !.pc = BigSub(litint, Big(1))] ELSE self

jg(self, litint) ==
  IF BigSign(self.comparator) > 0
  THEN [self EXCEPT !.pc = BigSub(litint, Big(1))] ELSE self

\* jmp without the compensation for the `self.pc += 1` that follows.
jmp_uncompensated(self, litint) == [self EXCEPT !.pc = litint]

jmp(self, litint) == [self EXCEPT !.pc = BigSub(litint, Big(1))]

(***************************************************************************)
(* spritesurface.py                                                        *)
(***************************************************************************)
\* SpriteSurface.__init__, when the manifest and its images load.
SpriteSurface == [loaded |-> TRUE, alpha |-> 255]

\* An alpha setter that tests `0 <= alpha` only.
AlphaAccepted_nonnegative(alpha) == ~BigLess(alpha, Big(0))

\* The alpha setter: the new sprite, or the same one when it raises.
AlphaAccepted(alpha) == alpha.hi = 0 /\ alpha.lo <= 255
SetAlpha(sprite, alpha) ==
  IF AlphaAccepted(alpha) THEN [sprite EXCEPT !.alpha = BigSmall(alpha)]
  ELSE sprite

(***************************************************************************)
(* The host's calls into the Runtime.  The host is one thread: it is       *)
(* inside at most one call at a time.                                      *)
(***************************************************************************)
Listed(u) == \E i \in 1..Len(threads) : threads[i] = u

\* A thread that has not been told to stop and has not left run().
Runnable(u) == thr[u].running /\ thr[u].phase \in {"loop", "exec", "clear"}

\* A VMThread object that left run() and is not in Runtime.threads is
\* referenced by nothing: it is garbage, and the allocation of the next
\* VMThread finds it collected.
Collected == [VMThread(Big(0)) EXCEPT !.running = FALSE, !.phase = "collected"]
Garbage(u) == thr[u].phase \in {"done", "faulted", "collected"} /\ ~Listed(u)
Collect == [u \in 1..Len(thr) |-> IF Garbage(u) THEN Collected ELSE thr[u]]
CollectHooks == [u \in 1..Len(thr) |-> IF Garbage(u) THEN <<>> ELSE hook_wait[u]]

\* Runtime.start without the test of len(self.threads).
Runtime_start_unchecked ==
  /\ hostpc = "idle"
  /\ hostCalls < MaxHostCalls
  /\ hostCalls' = hostCalls + 1
  /\ Len(thr) < MaxThreads
  /\ thr' = Append(Collect, VMThread(Big(0)))
  /\ hook_wait' = Append(CollectHooks, <<>>)
  /\ hostnew' = Len(thr) + 1
  /\ hostpc' = "start"
  /\ hostResult' = "none"
  /\ UNCHANGED << prog, code, sprite_bank, threads, assembly >>

\* Runtime.start, up to thread.start()
Runtime_start ==
  /\ hostpc = "idle"
  /\ hostCalls < MaxHostCalls
  /\ hostCalls' = hostCalls + 1
  /\ \/ /\ Len(threads) > 0
        /\ hostResult' = "already_running"
        /\ UNCHANGED << prog, code, sprite_bank, threads, thr, hook_wait,
                        hostpc, hostnew, assembly >>
     \/ /\ Len(threads) = 0
        /\ Len(thr) < MaxThreads
        /\ thr' = Append(Collect, VMThread(Big(0)))
        /\ hook_wait' = Append(CollectHooks, <<>>)
        /\ hostnew' = Len(thr) + 1
        /\ hostpc' = "start"
        /\ hostResult' = "none"
        /\ UNCHANGED << prog, code, sprite_bank, threads, assembly >>

\* Runtime.start: self.threads.append(thread)
Runtime_start_append ==
  /\ hostpc = "start"
  /\ threads' = Append(threads, hostnew)
  /\ hostpc' = "idle"
  /\ hostnew' = 0
  /\ hostResult' = "started"
  /\ UNCHANGED << prog, code, sprite_bank, thr, hook_wait, hostCalls, assembly >>

\* _call_fork whose new thread starts from a copy of the first thread of the
\* set, when there is one.
Runtime_call_fork_copy(pc) ==
  /\ hostpc = "idle"
  /\ hostCalls < MaxHostCalls
  /\ hostCalls' = hostCalls + 1
  /\ Len(thr) < MaxThreads
  /\ thr' = Append(Collect,
                   IF threads = <<>> THEN VMThread(Big(pc))
                   ELSE [thr[threads[1]] EXCEPT
                           !.pc = Big(pc), !.running = TRUE, !.phase = "loop"])
  /\ hook_wait' = Append(CollectHooks, <<>>)
  /\ hostnew' = Len(thr) + 1
  /\ hostpc' = "fork"
  /\ hostResult' = "none"
  /\ UNCHANGED << prog, code, sprite_bank, threads, assembly >>

\* Runtime._call_fork(pc), up to thread.start()
Runtime_call_fork(pc) ==
  /\ hostpc = "idle"
  /\ hostCalls < MaxHostCalls
  /\ hostCalls' = hostCalls + 1
  /\ Len(thr) < MaxThreads
  /\ thr' = Append(Collect, VMThread(Big(pc)))
  /\ hook_wait' = Append(CollectHooks, <<>>)
  /\ hostnew' = Len(thr) + 1
  /\ hostpc' = "fork"
  /\ hostResult' = "none"
  /\ UNCHANGED << prog, code, sprite_bank, threads, assembly >>

\* Runtime._call_fork: self.threads.append(thread)
Runtime_call_fork_append ==
  /\ hostpc = "fork"
  /\ threads' = Append(threads, hostnew)
  /\ hostpc' = "idle"
  /\ hostnew' = 0
  /\ hostResult' = "forked"
  /\ UNCHANGED << prog, code, sprite_bank, thr, hook_wait, hostCalls, assembly >>

\* for thread in self.threads: thread.stop()
StopListed == [u \in 1..Len(thr) |-> IF Listed(u) THEN stop(thr[u]) ELSE thr[u]]

\* Runtime.reset, called by the host.
Runtime_reset ==
  /\ hostpc = "idle"
  /\ hostCalls < MaxHostCalls
  /\ hostCalls' = hostCalls + 1
  /\ thr' = StopListed
  /\ threads' = <<>>
  /\ hostResult' = "reset"
  /\ UNCHANGED << prog, code, sprite_bank, hook_wait, hostpc, hostnew, assembly >>

(***************************************************************************)
(* The steps of a VMThread.                                                *)
(***************************************************************************)
Executing(t, name) ==
  /\ t \in 1..Len(thr)
  /\ thr[t].phase = "exec"
  /\ thr[t].op = OpOf(name)

\* The k-th decoded argument: a register index, an integer, or a string.
ArgR(t, k) == BigSmall(thr[t].args[k].n)
ArgN(t, k) == thr[t].args[k].n
ArgS(t, k) == thr[t].args[k].s

\* A step of thread t that changes that thread only.
Local(t, self) ==
  /\ thr' = [thr EXCEPT ![t] = Completed(self)]
  /\ UNCHANGED << prog, code, sprite_bank, threads, hook_wait,
                  hostpc, hostnew, hostResult, hostCalls, assembly >>

Run(t) ==
  /\ t \in 1..Len(thr)
  /\ thr[t].phase = "loop"
  /\ thr' = [thr EXCEPT ![t] = run(thr[t])]
  /\ UNCHANGED << prog, code, sprite_bank, threads, hook_wait,
                  hostpc, hostnew, hostResult, hostCalls, assembly >>

\* VMThread.reset -> Runtime.reset: the loop that stops the threads.
Op_reset(t) ==
  /\ Executing(t, "reset")
  /\ thr' = [StopListed EXCEPT ![t].phase = "clear"]
  /\ UNCHANGED << prog, code, sprite_bank, threads, hook_wait,
                  hostpc, hostnew, hostResult, hostCalls, assembly >>

\* VMThread.reset -> Runtime.reset: self.threads.clear(), and the return.
Op_reset_clear(t) ==
  /\ t \in 1..Len(thr)
  /\ thr[t].phase = "clear"
  /\ threads' = <<>>
  /\ thr' = [thr EXCEPT ![t] = [@ EXCEPT !.pc = BigAdd(@, Big(1)),
                                           !.phase = "loop"]]
  /\ UNCHANGED << prog, code, sprite_bank, hook_wait, hostpc, hostnew, hostResult, hostCalls, assembly >>

\* loadspr: SpriteSurface(vpath) reads files; it loads or it raises.
Op_loadspr(t) ==
  /\ Executing(t, "loadspr")
  /\ LET self == thr[t]
         regstr_vpath == ArgR(t, 1)
         regint_banknum == ArgR(t, 2)
     IN  \E loads \in BOOLEAN :
           IF \/ BadReg(regstr_vpath) \/ BadReg(regint_banknum)
              \/ ~loads
              \/ ~PyInRange(self.regints[regint_banknum], MAX_BANKS)
           THEN /\ Local(t, Raise(self))
           ELSE /\ sprite_bank' =
                     [sprite_bank EXCEPT
                        ![PyIndex(self.regints[regint_banknum], MAX_BANKS)] =
                          SpriteSurface]
                /\ thr' = [thr EXCEPT ![t] = Completed(self)]
                /\ UNCHANGED << prog, code, threads, hook_wait,
                                hostpc, hostnew, hostResult, hostCalls, assembly >>

Op_unloadspr(t) ==
  /\ Executing(t, "unloadspr")
  /\ LET self == thr[t]
         regint_banknum == ArgR(t, 1)
     IN  IF \/ BadReg(regint_banknum)
            \/ ~PyInRange(self.regints[regint_banknum], MAX_BANKS)
         THEN Local(t, Raise(self))
         ELSE /\ sprite_bank' =
                   [sprite_bank EXCEPT
                      ![PyIndex(self.regints[regint_banknum], MAX_BANKS)] = None]
              /\ thr' = [thr EXCEPT ![t] = Completed(self)]
              /\ UNCHANGED << prog, code, threads, hook_wait,
                              hostpc, hostnew, hostResult, hostCalls, assembly >>

\* fork: a running thread calls _call_fork() without the pc it requires.
fork(self, litint_procedure) == IF self.running THEN Raise(self) ELSE self

Op_fork(t) == Executing(t, "fork") /\ Local(t, fork(thr[t], ArgN(t, 1)))

Op_ret(t) == Executing(t, "ret") /\ Local(t, ret(thr[t]))

Op_call(t) == Executing(t, "call") /\ Local(t, call(thr[t], ArgN(t, 1)))

Op_pushs(t) == Executing(t, "pushs") /\ Local(t, pushs(thr[t], ArgR(t, 1)))

Op_pops(t) == Executing(t, "pops") /\ Local(t, pops(thr[t], ArgR(t, 1)))

Op_pushi(t) == Executing(t, "pushi") /\ Local(t, pushi(thr[t], ArgR(t, 1)))

Op_popi(t) == Executing(t, "popi") /\ Local(t, popi(thr[t], ArgR(t, 1)))

Op_waitms(t) == Executing(t, "waitms") /\ Local(t, waitms(thr[t], ArgR(t, 1)))

Op_waithook(t) ==
  /\ Executing(t, "waithook")
  /\ thr' = [thr EXCEPT ![t] = Completed(waithook(thr[t], ArgS(t, 1)))]
  /\ hook_wait' = [hook_wait EXCEPT ![t] =
                     IF \E u \in 1..Len(thr) : u # t /\ Runnable(u)
                     THEN << ArgS(t, 1) >> ELSE <<>>]
  /\ UNCHANGED << prog, code, sprite_bank, threads, hostpc, hostnew, hostResult, hostCalls, assembly >>

Op_fire(t) ==
  /\ Executing(t, "fire")
  /\ thr' = [thr EXCEPT ![t] = Completed(fire(thr[t], ArgS(t, 1)))]
  /\ hook_wait' = [u \in 1..Len(hook_wait) |->
                     IF hook_wait[u] = << ArgS(t, 1) >> THEN <<>>
                     ELSE hook_wait[u]]
  /\ UNCHANGED << prog, code, sprite_bank, threads, hostpc, hostnew, hostResult, hostCalls, assembly >>

Op_say(t) == Executing(t, "say") /\ Local(t, say(thr[t], ArgR(t, 1), ArgR(t, 2)))

Op_setls(t) == Executing(t, "setls") /\ Local(t, setls(thr[t], ArgR(t, 1), ArgS(t, 2)))

Op_setli(t) == Executing(t, "setli") /\ Local(t, setli(thr[t], ArgR(t, 1), ArgN(t, 2)))

Op_setrs(t) == Executing(t, "setrs") /\ Local(t, setrs(thr[t], ArgR(t, 1), ArgR(t, 2)))

Op_setri(t) == Executing(t, "setri") /\ Local(t, setri(thr[t], ArgR(t, 1), ArgR(t, 2)))

\* show: the right-hand side is read first, then the slot, then the setter.
Op_show(t) ==
  /\ Executing(t, "show")
  /\ LET self == thr[t]
         regint_banknum == ArgR(t, 1)
         regint_alpha == ArgR(t, 2)
     IN  IF \/ BadReg(regint_alpha) \/ BadReg(regint_banknum)
            \/ ~PyInRange(self.regints[regint_banknum], MAX_BANKS)
         THEN Local(t, Raise(self))
         ELSE LET slot == PyIndex(self.regints[regint_banknum], MAX_BANKS)
                  alpha == self.regints[regint_alpha]
              IN  IF sprite_bank[slot] = None \/ ~AlphaAccepted(alpha)
                  THEN Local(t, Raise(self))
                  ELSE /\ sprite_bank' =
                            [sprite_bank EXCEPT
                               ![slot] = SetAlpha(sprite_bank[slot], alpha)]
                       /\ thr' = [thr EXCEPT ![t] = Completed(self)]
                       /\ UNCHANGED << prog, code, threads, hook_wait,
                                       hostpc, hostnew, hostResult, hostCalls, assembly >>

Op_layer(t) == Executing(t, "layer") /\ Local(t, layer(thr[t], ArgR(t, 1), ArgR(t, 2)))

Op_attri(t) == Executing(t, "attri") /\ Local(t, attri(thr[t], ArgS(t, 1), ArgR(t, 2)))

Op_attrs(t) == Executing(t, "attrs") /\ Local(t, attrs(thr[t], ArgS(t, 1), ArgR(t, 2)))

\* openbank: the first empty slot, when there is one.
openbank(self, regint_banknum) ==
  IF \A index \in 0..(MAX_BANKS - 1) : sprite_bank[index] # None THEN self
  ELSE IF BadReg(regint_banknum) THEN Raise(self)
  ELSE [self EXCEPT !.regints[regint_banknum] =
          Big(CHOOSE index \in 0..(MAX_BANKS - 1) :
                /\ sprite_bank[index] = None
                /\ \A lower \in 0..(index - 1) : sprite_bank[lower] # None)]

Op_openbank(t) == Executing(t, "openbank") /\ Local(t, openbank(thr[t], ArgR(t, 1)))

Op_addr(t) == Executing(t, "addr") /\ Local(t, addr(thr[t], ArgR(t, 1), ArgR(t, 2)))

Op_subr(t) == Executing(t, "subr") /\ Local(t, subr(thr[t], ArgR(t, 1), ArgR(t, 2)))

Op_concatl(t) ==
  Executing(t, "concatl") /\ Local(t, concatl(thr[t], ArgR(t, 1), ArgS(t, 2)))

Op_concatr(t) ==
  Executing(t, "concatr") /\ Local(t, concatr(thr[t], ArgR(t, 1), ArgR(t, 2)))

Op_cmp_iil(t) ==
  Executing(t, "cmp_iil") /\ Local(t, cmp_iil(thr[t], ArgR(t, 1), ArgN(t, 2)))

Op_cmp_iir(t) ==
  Executing(t, "cmp_iir") /\ Local(t, cmp_iir(thr[t], ArgR(t, 1), ArgR(t, 2)))

Op_jl(t) == Executing(t, "jl") /\ Local(t, jl(thr[t], ArgN(t, 1)))

Op_je(t) == Executing(t, "je") /\ Local(t, je(thr[t], ArgN(t, 1)))

Op_jg(t) == Executing(t, "jg") /\ Local(t, jg(thr[t], ArgN(t, 1)))

Op_jmp(t) == Executing(t, "jmp") /\ Local(t, jmp(thr[t], ArgN(t, 1)))

\* Any step of thread t.
ThreadStep(t) ==
  \/ Run(t)
  \/ Op_reset(t) \/ Op_reset_clear(t)
  \/ Op_loadspr(t) \/ Op_unloadspr(t)
  \/ Op_fork(t) \/ Op_ret(t) \/ Op_call(t)
  \/ Op_pushs(t) \/ Op_pops(t) \/ Op_pushi(t) \/ Op_popi(t)
  \/ Op_waitms(t) \/ Op_waithook(t) \/ Op_fire(t) \/ Op_say(t)
  \/ Op_setls(t) \/ Op_setli(t) \/ Op_setrs(t) \/ Op_setri(t)
  \/ Op_show(t) \/ Op_layer(t) \/ Op_attri(t) \/ Op_attrs(t)
  \/ Op_openbank(t)
  \/ Op_addr(t) \/ Op_subr(t) \/ Op_concatl(t) \/ Op_concatr(t)
  \/ Op_cmp_iil(t) \/ Op_cmp_iir(t)
  \/ Op_jl(t) \/ Op_je(t) \/ Op_jg(t) \/ Op_jmp(t)


(***************************************************************************)
(* The programs: assembly sources (each line as shlex.split returns it)    *)
(* and one program given as bytes.                                         *)
(***************************************************************************)
\* Scenario A of the specification, followed by a sub.
\*     set i0 7
\*     set i1 5
\*     add i0 i1
\*     sub i0 i1
Src_arith ==
  <<
     << <<"s", "e", "t">>, <<"i", "0">>, <<"7">> >>,
     << <<"s", "e", "t">>, <<"i", "1">>, <<"5">> >>,
     << <<"a", "d", "d">>, <<"i", "0">>, <<"i", "1">> >>,
     << <<"s", "u", "b">>, <<"i", "0">>, <<"i", "1">> >> >>

\* Scenario B.
\*     set i0 3
\*     cmp i0 3
\*     je @eq
\*     set i0 99
\*     eq:
Src_equal ==
  <<
     << <<"s", "e", "t">>, <<"i", "0">>, <<"3">> >>,
     << <<"c", "m", "p">>, <<"i", "0">>, <<"3">> >>,
     << <<"j", "e">>, <<"@", "e", "q">> >>,
     << <<"s", "e", "t">>, <<"i", "0">>, <<"9", "9">> >>,
     << <<"e", "q", ":">> >> >>

\* Scenario C: the counting loop.
\*     set i0 0
\*     loop:
\*     cmp i0 3
\*     jg @done
\*     set i1 1
\*     add i0 i1
\*     jmp @loop
\*     done:
Src_count ==
  <<
     << <<"s", "e", "t">>, <<"i", "0">>, <<"0">> >>,
     << <<"l", "o", "o", "p", ":">> >>,
     << <<"c", "m", "p">>, <<"i", "0">>, <<"3">> >>,
     << <<"j", "g">>, <<"@", "d", "o", "n", "e">> >>,
     << <<"s", "e", "t">>, <<"i", "1">>, <<"1">> >>,
     << <<"a", "d", "d">>, <<"i", "0">>, <<"i", "1">> >>,
     << <<"j", "m", "p">>, <<"@", "l", "o", "o", "p">> >>,
     << <<"d", "o", "n", "e", ":">> >> >>

\* Scenario D.
\*     fork @worker
\*     wait "go"
\*     set i0 1
\*     end:
\*     jmp @end
\*     worker:
\*     fire "go"
\*     ret
Src_hooks ==
  <<
     << <<"f", "o", "r", "k">>, <<"@", "w", "o", "r", "k", "e", "r">> >>,
     << <<"w", "a", "i", "t">>, <<"g", "o">> >>,
     << <<"s", "e", "t">>, <<"i", "0">>, <<"1">> >>,
     << <<"e", "n", "d", ":">> >>,
     << <<"j", "m", "p">>, <<"@", "e", "n", "d">> >>,
     << <<"w", "o", "r", "k", "e", "r", ":">> >>,
     << <<"f", "i", "r", "e">>, <<"g", "o">> >>,
     << <<"r", "e", "t">> >> >>

\* Scenario E.
\*     wait "neverfired"
Src_never ==
  <<
     << <<"w", "a", "i", "t">>, <<"n", "e", "v", "e", "r", "f", "i", "r", "e", "d">> >> >>

\* Scenario F.
\*     set s0 "hi "
\*     set s1 "there"
\*     concat s0 s1
Src_greet ==
  <<
     << <<"s", "e", "t">>, <<"s", "0">>, <<"h", "i", " ">> >>,
     << <<"s", "e", "t">>, <<"s", "1">>, <<"t", "h", "e", "r", "e">> >>,
     << <<"c", "o", "n", "c", "a", "t">>, <<"s", "0">>, <<"s", "1">> >> >>

\* A waiter, and a forked sibling that fires the hook.
\*     wait "go"
\*     set i0 1
\*     wait i0
\*     fork @signal
\*     signal:
\*     fire "go"
Src_signal ==
  <<
     << <<"w", "a", "i", "t">>, <<"g", "o">> >>,
     << <<"s", "e", "t">>, <<"i", "0">>, <<"1">> >>,
     << <<"w", "a", "i", "t">>, <<"i", "0">> >>,
     << <<"f", "o", "r", "k">>, <<"@", "s", "i", "g", "n", "a", "l">> >>,
     << <<"s", "i", "g", "n", "a", "l", ":">> >>,
     << <<"f", "i", "r", "e">>, <<"g", "o">> >> >>

\* Comparisons against a negative literal and between registers.
\*     cmp i0 -1
\*     jg @gt
\*     jl @lt
\*     set i1 9
\*     gt:
\*     set i2 1
\*     lt:
\*     set i3 2
\*     cmp i0 i3
\*     jl @out
\*     set i1 8
\*     out:
Src_signed ==
  <<
     << <<"c", "m", "p">>, <<"i", "0">>, <<"-", "1">> >>,
     << <<"j", "g">>, <<"@", "g", "t">> >>,
     << <<"j", "l">>, <<"@", "l", "t">> >>,
     << <<"s", "e", "t">>, <<"i", "1">>, <<"9">> >>,
     << <<"g", "t", ":">> >>,
     << <<"s", "e", "t">>, <<"i", "2">>, <<"1">> >>,
     << <<"l", "t", ":">> >>,
     << <<"s", "e", "t">>, <<"i", "3">>, <<"2">> >>,
     << <<"c", "m", "p">>, <<"i", "0">>, <<"i", "3">> >>,
     << <<"j", "l">>, <<"@", "o", "u", "t">> >>,
     << <<"s", "e", "t">>, <<"i", "1">>, <<"8">> >>,
     << <<"o", "u", "t", ":">> >> >>

\* A backward jmp to offset 0 and a forward jmp.
\*     top:
\*     cmp i0 1
\*     je @out
\*     set i0 1
\*     jmp @top
\*     out:
\*     jmp @fwd
\*     set i0 9
\*     fwd:
\*     set i2 i0
Src_jumps ==
  <<
     << <<"t", "o", "p", ":">> >>,
     << <<"c", "m", "p">>, <<"i", "0">>, <<"1">> >>,
     << <<"j", "e">>, <<"@", "o", "u", "t">> >>,
     << <<"s", "e", "t">>, <<"i", "0">>, <<"1">> >>,
     << <<"j", "m", "p">>, <<"@", "t", "o", "p">> >>,
     << <<"o", "u", "t", ":">> >>,
     << <<"j", "m", "p">>, <<"@", "f", "w", "d">> >>,
     << <<"s", "e", "t">>, <<"i", "0">>, <<"9">> >>,
     << <<"f", "w", "d", ":">> >>,
     << <<"s", "e", "t">>, <<"i", "2">>, <<"i", "0">> >> >>

\* A call, its return, and the integer stack.
\*     set i0 5
\*     pushi i0
\*     call @f
\*     popi i2
\*     jmp @end
\*     f:
\*     set i1 6
\*     ret
\*     end:
Src_calls ==
  <<
     << <<"s", "e", "t">>, <<"i", "0">>, <<"5">> >>,
     << <<"p", "u", "s", "h", "i">>, <<"i", "0">> >>,
     << <<"c", "a", "l", "l">>, <<"@", "f">> >>,
     << <<"p", "o", "p", "i">>, <<"i", "2">> >>,
     << <<"j", "m", "p">>, <<"@", "e", "n", "d">> >>,
     << <<"f", ":">> >>,
     << <<"s", "e", "t">>, <<"i", "1">>, <<"6">> >>,
     << <<"r", "e", "t">> >>,
     << <<"e", "n", "d", ":">> >> >>

\* The string handlers the assembler can emit.
\*     set s1 "a"
\*     concat s1 "b"
\*     pushs s1
\*     pops s2
\*     attr "k" s2
\*     attr "n" i0
\*     say i0 s2
Src_text ==
  <<
     << <<"s", "e", "t">>, <<"s", "1">>, <<"a">> >>,
     << <<"c", "o", "n", "c", "a", "t">>, <<"s", "1">>, <<"b">> >>,
     << <<"p", "u", "s", "h", "s">>, <<"s", "1">> >>,
     << <<"p", "o", "p", "s">>, <<"s", "2">> >>,
     << <<"a", "t", "t", "r">>, <<"k">>, <<"s", "2">> >>,
     << <<"a", "t", "t", "r">>, <<"n">>, <<"i", "0">> >>,
     << <<"s", "a", "y">>, <<"i", "0">>, <<"s", "2">> >> >>

\* Sprites: load, show, layer, and a show out of range.
\*     openbank i0
\*     loadspr s0 i0
\*     set i1 128
\*     show i0 i1
\*     layer i0 i1
\*     set i1 300
\*     show i0 i1
Src_stage ==
  <<
     << <<"o", "p", "e", "n", "b", "a", "n", "k">>, <<"i", "0">> >>,
     << <<"l", "o", "a", "d", "s", "p", "r">>, <<"s", "0">>, <<"i", "0">> >>,
     << <<"s", "e", "t">>, <<"i", "1">>, <<"1", "2", "8">> >>,
     << <<"s", "h", "o", "w">>, <<"i", "0">>, <<"i", "1">> >>,
     << <<"l", "a", "y", "e", "r">>, <<"i", "0">>, <<"i", "1">> >>,
     << <<"s", "e", "t">>, <<"i", "1">>, <<"3", "0", "0">> >>,
     << <<"s", "h", "o", "w">>, <<"i", "0">>, <<"i", "1">> >> >>

\* Sprites: load, unload, load again, reset.
\*     loadspr s0 i0
\*     unloadspr i0
\*     loadspr s0 i0
\*     reset
\*     set i0 1
Src_clean ==
  <<
     << <<"l", "o", "a", "d", "s", "p", "r">>, <<"s", "0">>, <<"i", "0">> >>,
     << <<"u", "n", "l", "o", "a", "d", "s", "p", "r">>, <<"i", "0">> >>,
     << <<"l", "o", "a", "d", "s", "p", "r">>, <<"s", "0">>, <<"i", "0">> >>,
     << <<"r", "e", "s", "e", "t">> >>,
     << <<"s", "e", "t">>, <<"i", "0">>, <<"1">> >> >>

\* Pops from empty stacks: popi at the start, pops in the procedure f.
\*     set i0 1
\*     popi i1
\*     fork @f
\*     f:
\*     pushi i0
\*     pops s1
Src_under ==
  <<
     << <<"s", "e", "t">>, <<"i", "0">>, <<"1">> >>,
     << <<"p", "o", "p", "i">>, <<"i", "1">> >>,
     << <<"f", "o", "r", "k">>, <<"@", "f">> >>,
     << <<"f", ":">> >>,
     << <<"p", "u", "s", "h", "i">>, <<"i", "0">> >>,
     << <<"p", "o", "p", "s">>, <<"s", "1">> >> >>

\* A reset that a forked thread can execute beside the first thread.
\*     set i0 1
\*     set i1 2
\*     r:
\*     reset
\*     fork @r
Src_halt ==
  <<
     << <<"s", "e", "t">>, <<"i", "0">>, <<"1">> >>,
     << <<"s", "e", "t">>, <<"i", "1">>, <<"2">> >>,
     << <<"r", ":">> >>,
     << <<"r", "e", "s", "e", "t">> >>,
     << <<"f", "o", "r", "k">>, <<"@", "r">> >> >>

\* String registers as second operands, away from register s0.
\*     set s1 "a"
\*     set s2 s1
\*     concat s2 s1
Src_copy ==
  <<
     << <<"s", "e", "t">>, <<"s", "1">>, <<"a">> >>,
     << <<"s", "e", "t">>, <<"s", "2">>, <<"s", "1">> >>,
     << <<"c", "o", "n", "c", "a", "t">>, <<"s", "2">>, <<"s", "1">> >> >>

\* Bytes no assembly source produces: setls s1, setrs s2 s1, concatr s2 s1
\* and a byte that is no opcode.
Raw_copy == << 14, 1, 97, 0, 16, 2, 1, 26, 2, 1, 33 >>

Sources ==
  [name \in {"arith", "equal", "count", "hooks", "never", "greet", "signal", "signed", "jumps", "calls", "text", "stage", "clean", "under",
                "halt", "copy"} |->
     CASE name = "arith" -> Src_arith
       [] name = "equal" -> Src_equal
       [] name = "count" -> Src_count
       [] name = "hooks" -> Src_hooks
       [] name = "never" -> Src_never
       [] name = "greet" -> Src_greet
       [] name = "signal" -> Src_signal
       [] name = "signed" -> Src_signed
       [] name = "jumps" -> Src_jumps
       [] name = "calls" -> Src_calls
       [] name = "text" -> Src_text
       [] name = "stage" -> Src_stage
       [] name = "clean" -> Src_clean
       [] name = "under" -> Src_under
       [] name = "halt" -> Src_halt
       [] name = "copy" -> Src_copy]

\* The assembler's run on each source.
Assembled == [name \in DOMAIN Sources |-> Assemble(Sources[name])]

\* The programs a Runtime is constructed with.
ProgramNames == DOMAIN Sources \cup {"raw"}
Program(name) == IF name = "raw" THEN Raw_copy ELSE Assembled[name].output

\* The offsets the host forks at: the procedures that the program's fork
\* instructions name.
ForkTargets(name) ==
  IF name = "raw" THEN {}
  ELSE LET asm == Assembled[name]
       IN  {asm.procedures[asm.procedure_refs[r].name] :
              r \in {q \in 1..Len(asm.procedure_refs) :
                       asm.output[asm.procedure_refs[q].location] = OpOf("fork")}}

(***************************************************************************)
(* The specification.                                                      *)
(***************************************************************************)
\* The assembler's run that produced a program: over, with its file written.
\* No assembler produced the program given as bytes.
AsmOver(name) ==
  IF name = "raw" THEN [st |-> AsmInit, n |-> 1, at |-> "off"]
  ELSE [st |-> Assembled[name], n |-> Len(Sources[name]) + 1, at |-> "written"]

\* Runtime.__init__
Init ==
  /\ prog \in ProgramNames
  /\ code = Program(prog)
  /\ assembly = AsmOver(prog)
  /\ sprite_bank = [index \in 0..(MAX_BANKS - 1) |-> None]
  /\ threads = <<>>
  /\ thr = <<>>
  /\ hook_wait = <<>>
  /\ hostpc = "idle"
  /\ hostnew = 0
  /\ hostResult = "none"
  /\ hostCalls = 0

Next ==
  \/ Runtime_start
  \/ Runtime_start_append
  \/ \E pc \in ForkTargets(prog) : Runtime_call_fork(pc)
  \/ Runtime_call_fork_append
  \/ Runtime_reset
  \/ \E t \in 1..MaxThreads : ThreadStep(t)

Spec == Init /\ [][Next]_vars

\* The scheduler runs every thread that can take a step.
FairSpec == Spec /\ \A t \in 1..MaxThreads : WF_vars(ThreadStep(t))

(***************************************************************************)
(* codegen.py as a process of its own: it reads the lines of its input,    *)
(* assembles them one by one, resolves the procedure references and        *)
(* writes the output file, which is what a Runtime is given as its code.   *)
(***************************************************************************)
\* Sources for the assembler only:
\*   dup     a label defined twice: `a:` / `ret` / `a:`
\*   undef   a reference to a label that no line defines: `set i0 1` / `jmp @nowhere`
\*   short   an operand missing: `set i0`
\*   long    an operand too many: `add i0 i1 i2` / `ret`
\*   badop   no such mnemonic: `nop`
\*   noenc   no interpretation takes the operands: `add i0 5`
\*   remark  semicolon comments and a blank line: `set i0 1 ; one` / `; nothing` / `` / `ret`
AsmCases ==
  "dup" :>
    <<
       << <<"a", ":">> >>,
       << <<"r", "e", "t">> >>,
       << <<"a", ":">> >> >> @@
  "undef" :>
    <<
       << <<"s", "e", "t">>, <<"i", "0">>, <<"1">> >>,
       << <<"j", "m", "p">>, <<"@", "n", "o", "w", "h", "e", "r", "e">> >> >> @@
  "short" :>
    <<
       << <<"s", "e", "t">>, <<"i", "0">> >> >> @@
  "long" :>
    <<
       << <<"a", "d", "d">>, <<"i", "0">>, <<"i", "1">>, <<"i", "2">> >>,
       << <<"r", "e", "t">> >> >> @@
  "badop" :>
    <<
       << <<"n", "o", "p">> >> >> @@
  "noenc" :>
    <<
       << <<"a", "d", "d">>, <<"i", "0">>, <<"5">> >> >> @@
  "remark" :>
    <<
       << <<"s", "e", "t">>, <<"i", "0">>, <<"1">>, <<";">>, <<"o", "n", "e">> >>,
       << <<";">>, <<"n", "o", "t", "h", "i", "n", "g">> >>,
       <<  >>,
       << <<"r", "e", "t">> >> >>

\* The input files: the programs and the sources above.
AsmInputs == AsmCases @@ Sources

\* The assembler before its first line, with the output file not written.
AsmStart ==
  /\ prog \in DOMAIN AsmInputs
  /\ code = <<>>
  /\ assembly = [st |-> AsmInit, n |-> 1, at |-> "lines"]
  /\ sprite_bank = [index \in 0..(MAX_BANKS - 1) |-> None]
  /\ threads = <<>>
  /\ thr = <<>>
  /\ hook_wait = <<>>
  /\ hostpc = "idle"
  /\ hostnew = 0
  /\ hostResult = "none"
  /\ hostCalls = 0

\* One turn of the loop over the lines; an exception ends the run.
Asm_line ==
  /\ assembly.at = "lines"
  /\ assembly.n <= Len(AsmInputs[prog])
  /\ LET st == AssembleLine(assembly.st, AsmInputs[prog][assembly.n], assembly.n - 1)
     IN  assembly' = [st |-> st, n |-> assembly.n + 1,
                 at |-> IF st.status = "ok" THEN "lines" ELSE "failed"]
  /\ UNCHANGED << prog, code, sprite_bank, threads, thr, hook_wait,
                  hostpc, hostnew, hostResult, hostCalls >>

\* After the last line: the loop over procedure_refs.
Asm_resolve ==
  /\ assembly.at = "lines"
  /\ assembly.n > Len(AsmInputs[prog])
  /\ LET st == ResolveRefs(assembly.st, 1)
     IN  assembly' = [assembly EXCEPT !.st = st,
                            !.at = IF st.status = "ok" THEN "write" ELSE "failed"]
  /\ UNCHANGED << prog, code, sprite_bank, threads, thr, hook_wait,
                  hostpc, hostnew, hostResult, hostCalls >>

\* output_file.write(output)
Asm_write ==
  /\ assembly.at = "write"
  /\ code' = assembly.st.output
  /\ assembly' = [assembly EXCEPT !.at = "written"]
  /\ UNCHANGED << prog, sprite_bank, threads, thr, hook_wait,
                  hostpc, hostnew, hostResult, hostCalls >>

AsmNext == Asm_line \/ Asm_resolve \/ Asm_write

AsmSpec == AsmStart /\ [][AsmNext]_vars

(***************************************************************************)
(* Vocabulary of the properties.                                           *)
(***************************************************************************)
Threads == 1..Len(thr)

\* The registers, stacks, comparator and attribute map of a thread.
DataOf(self) ==
  << self.regints, self.regstrs, self.int_stack, self.str_stack,
     self.comparator, self.attr_list >>

\* The @label operand that the assembler recorded at byte offset location,
\* and the offset at which that label was defined.
IsLabelOperand(location) ==
  /\ prog # "raw"
  /\ \E r \in 1..Len(Assembled[prog].procedure_refs) :
       Assembled[prog].procedure_refs[r].location = location
LabelOperand(location) ==
  LET refs == Assembled[prog].procedure_refs
  IN  refs[CHOOSE r \in 1..Len(refs) : refs[r].location = location].name
address_of(label) == Assembled[prog].procedures[label]

\* The offset of the instruction after a one-string instruction fetched at
\* offset at: one past the first zero byte after the opcode.
AfterString(at) ==
  1 + CHOOSE j \in (at + 1)..(Len(code) - 1) :
        /\ CodeAt(j) = 0
        /\ \A i \in (at + 1)..(j - 1) : CodeAt(i) # 0

(***************************************************************************)
(* C1.  Hook rendezvous: a thread that executed `wait "h"` while another   *)
(* thread was runnable begins no further instruction until some thread     *)
(* has executed `fire "h"`.                                                *)
(***************************************************************************)
C1_HookRendezvous ==
  [][\A t \in Threads :
       (hook_wait[t] # <<>> /\ thr[t].phase = "loop") => thr'[t].phase # "exec"]_vars

(***************************************************************************)
(* C2.  Deadlock avoidance: a waithook executed while no other thread is   *)
(* runnable is a pass-through: the thread goes on to the head of its loop  *)
(* with PC at the instruction after the wait; it is never left parked.     *)
(***************************************************************************)
AloneAtWait(t) ==
  /\ t \in Threads
  /\ thr[t].phase = "exec"
  /\ thr[t].op = OpOf("waithook")
  /\ \A u \in Threads : u # t => ~Runnable(u)

PassedWait(t) ==
  /\ t \in Threads
  /\ thr[t].phase = "loop"
  /\ thr[t].op = OpOf("waithook")
  /\ thr[t].pc = Big(AfterString(thr[t].ipc))

C2_DeadlockAvoidance == \A t \in 1..MaxThreads : AloneAtWait(t) ~> PassedWait(t)

C2_Witness ==
  /\ prog = "never"
  /\ Len(thr) = 1
  /\ PassedWait(1)
  /\ thr[1].running
  /\ thr[1].args[1].s = << 11, 110, 101, 118, 101, 114, 102, 105, 114, 101, 100 >>

(***************************************************************************)
(* C3.  fork @p in a running thread adds exactly one thread to the         *)
(* runtime's thread set, at PC = address of p, and the forking thread      *)
(* continues with the instruction after the fork.                          *)
(***************************************************************************)
C3_ForkSpawns ==
  [][\A t \in Threads :
       (Op_fork(t) /\ thr[t].running) =>
         /\ Len(threads') = Len(threads) + 1
         /\ Len(thr') = Len(thr) + 1
         /\ threads'[Len(threads')] = Len(thr')
         /\ thr'[Len(thr')].pc = thr[t].args[1].n
         /\ thr'[t].phase = "loop"
         /\ thr'[t].pc = Big(thr[t].ipc + 5)]_vars

(***************************************************************************)
(* C4.  When Runtime.reset() (or the reset opcode) completes, the thread   *)
(* set is empty, every thread that was in the set has running = false,     *)
(* and every sprite-bank slot is empty.                                    *)
(***************************************************************************)
C4_ResetClearsAll ==
  [][(Runtime_reset \/ \E t \in Threads : Op_reset_clear(t)) =>
       /\ threads' = <<>>
       /\ \A u \in Threads : Listed(u) => ~thr'[u].running
       /\ \A index \in 0..(MAX_BANKS - 1) : sprite_bank'[index] = None]_vars

(***************************************************************************)
(* C5.  Runtime.start() with a non-empty thread set fails as already       *)
(* running and leaves the thread set and every thread unchanged; with an   *)
(* empty thread set it creates exactly one thread, at PC = 0, which        *)
(* becomes the only member of the thread set.                              *)
(***************************************************************************)
C5_Start ==
  [][/\ (Runtime_start /\ Len(threads) > 0) =>
          /\ hostResult' = "already_running"
          /\ hostpc' = "idle"
          /\ threads' = threads
          /\ thr' = thr
          /\ sprite_bank' = sprite_bank
     /\ (Runtime_start /\ Len(threads) = 0) =>
          /\ Len(thr') = Len(thr) + 1
          /\ hostnew' = Len(thr')
          /\ thr'[hostnew'].pc = Big(0)
          /\ thr'[hostnew'].phase = "loop"
          /\ thr'[hostnew'].running
          /\ threads' = threads
     /\ Runtime_start_append =>
          /\ threads' = << hostnew >>
          /\ hostResult' = "started"
          /\ thr' = thr]_vars

C5_Witness ==
  /\ hostResult = "already_running"
  /\ hostCalls = 2
  /\ threads = << 1 >>
  /\ Len(thr) = 1

(***************************************************************************)
(* C6.  Cancellation: once a thread's running flag is false it stays       *)
(* false, the thread begins no further instruction, and after at most the  *)
(* instruction it was executing the thread terminates.                     *)
(***************************************************************************)
Terminated(t) == t \in Threads /\ thr[t].phase \in {"done", "faulted", "collected"}

C6_Cancellation ==
  /\ [][\A t \in Threads :
          ~thr[t].running =>
            /\ ~thr'[t].running
            /\ ~(thr[t].phase = "loop" /\ thr'[t].phase = "exec")
            /\ (thr[t].phase = "loop" /\ thr'[t].phase # "loop"
                  => thr'[t].phase = "done")
            /\ (thr'[t].phase # "collected" => thr'[t].ipc = thr[t].ipc)]_vars
  /\ \A t \in 1..MaxThreads :
       (t \in Threads /\ ~thr[t].running) ~> Terminated(t)

C6_Witness ==
  \E t \in Threads :
    /\ ~thr[t].running
    /\ thr[t].phase = "done"
    /\ thr[t].op = OpOf("setli")
    /\ thr[t].pc = Big(thr[t].ipc + 6)

(***************************************************************************)
(* C7.  After a `jmp @p` the thread is at the head of its loop with        *)
(* PC = address_of(p), and the next dispatch fetches its opcode from that  *)
(* offset; p may be offset 0 or a forward label.                           *)
(***************************************************************************)
C7_JmpTarget ==
  [][\A t \in Threads :
       /\ (Op_jmp(t) /\ IsLabelOperand(thr[t].ipc + 1)) =>
            /\ thr'[t].phase = "loop"
            /\ thr'[t].pc = Big(address_of(LabelOperand(thr[t].ipc + 1)))
       /\ (/\ thr[t].phase = "loop" /\ thr[t].op = OpOf("jmp")
           /\ IsLabelOperand(thr[t].ipc + 1)
           /\ thr'[t].phase = "exec") =>
            /\ thr'[t].ipc = address_of(LabelOperand(thr[t].ipc + 1))
            /\ thr'[t].op = CodeAt(address_of(LabelOperand(thr[t].ipc + 1)))]_vars

C7_Witness ==
  \E t \in Threads :
    /\ prog = "jumps"
    /\ thr[t].phase = "exec"
    /\ thr[t].ipc = 0
    /\ thr[t].op = OpOf("cmp_iil")
    /\ thr[t].regints[0] = Big(1)

(***************************************************************************)
(* C8.  After `cmp ri, x` a following jl / je / jg jumps to its label      *)
(* exactly when R_i[ri] is less than / equal to / greater than x as        *)
(* signed 32-bit integers, and otherwise falls through; the counting loop  *)
(* of Scenario C ends with R_i[0] = 4.                                     *)
(***************************************************************************)
\* The reading of the low 32 bits of an integer as a signed 32-bit integer.
Signed32(n) ==
  LET h == n.hi % 65536
  IN  [hi |-> IF h >= 32768 THEN h - 65536 ELSE h, lo |-> n.lo]

\* -1, 0 or 1 as a is less than, equal to or greater than b, both signed.
SignedOrder(a, b) == BigSign(BigSub(Signed32(a), Signed32(b)))

JumpsWhen(t, taken) ==
  /\ thr'[t].phase = "loop"
  /\ thr'[t].pc = IF taken THEN thr[t].args[1].n ELSE Big(thr[t].ipc + 5)

C8_SignedCompare ==
  /\ [][\A t \in Threads :
          /\ (Op_cmp_iil(t) /\ ~BadReg(ArgR(t, 1))) =>
               BigSign(thr'[t].comparator)
                 = SignedOrder(thr[t].regints[ArgR(t, 1)], ArgN(t, 2))
          /\ (Op_cmp_iir(t) /\ ~BadReg(ArgR(t, 1)) /\ ~BadReg(ArgR(t, 2))) =>
               BigSign(thr'[t].comparator)
                 = SignedOrder(thr[t].regints[ArgR(t, 1)],
                               thr[t].regints[ArgR(t, 2)])
          /\ Op_jl(t) => JumpsWhen(t, BigSign(thr[t].comparator) < 0)
          /\ Op_je(t) => JumpsWhen(t, BigSign(thr[t].comparator) = 0)
          /\ Op_jg(t) => JumpsWhen(t, BigSign(thr[t].comparator) > 0)]_vars
  /\ [](\A t \in Threads :
          (prog = "count" /\ thr[t].phase = "faulted")
            => thr[t].regints[0] = Big(4))

(***************************************************************************)
(* C9.  Call/ret locality: call pushes the offset of its own last byte     *)
(* and goes to the procedure; ret pops it and goes to the instruction      *)
(* after the call, the call stack back to what it was before the call;     *)
(* neither changes a register, a typed stack, the comparator or the        *)
(* attribute map.                                                          *)
(***************************************************************************)
C9_CallRetLocality ==
  [][\A t \in Threads :
       /\ Op_call(t) =>
            /\ thr'[t].call_stack = Append(thr[t].call_stack, Big(thr[t].ipc + 4))
            /\ thr'[t].phase = "loop"
            /\ (IsLabelOperand(thr[t].ipc + 1) =>
                  thr'[t].pc = Big(address_of(LabelOperand(thr[t].ipc + 1))))
            /\ DataOf(thr'[t]) = DataOf(thr[t])
       /\ (Op_ret(t) /\ thr[t].call_stack # <<>>) =>
            /\ thr'[t].phase = "loop"
            /\ thr'[t].pc =
                 BigAdd(thr[t].call_stack[Len(thr[t].call_stack)], Big(1))
            /\ Append(thr'[t].call_stack,
                      thr[t].call_stack[Len(thr[t].call_stack)])
                 = thr[t].call_stack
            /\ DataOf(thr'[t]) = DataOf(thr[t])]_vars

C9_Witness ==
  \E t \in Threads :
    /\ prog = "calls"
    /\ thr[t].phase = "loop"
    /\ thr[t].op = OpOf("ret")
    /\ thr[t].pc = Big(13)
    /\ thr[t].call_stack = <<>>
    /\ thr[t].regints[1] = Big(6)
    /\ thr[t].int_stack = << Big(5) >>

(***************************************************************************)
(* C10.  `sub ri1, ri2` leaves R_i[ri1] equal to its previous value minus  *)
(* R_i[ri2], `add ri1, ri2` to its previous value plus R_i[ri2]; no other  *)
(* register changes.                                                       *)
(***************************************************************************)
OnlyRegister(t, r, value) ==
  /\ thr'[t].regints[r] = value
  /\ \A other \in 0..(MAX_REGISTERS - 1) :
       other # r => thr'[t].regints[other] = thr[t].regints[other]
  /\ thr'[t].regstrs = thr[t].regstrs

C10_SubAdd ==
  [][\A t \in Threads :
       /\ (Op_subr(t) /\ ~BadReg(ArgR(t, 1)) /\ ~BadReg(ArgR(t, 2))) =>
            OnlyRegister(t, ArgR(t, 1),
                         BigSub(thr[t].regints[ArgR(t, 1)],
                                thr[t].regints[ArgR(t, 2)]))
       /\ (Op_addr(t) /\ ~BadReg(ArgR(t, 1)) /\ ~BadReg(ArgR(t, 2))) =>
            OnlyRegister(t, ArgR(t, 1),
                         BigAdd(thr[t].regints[ArgR(t, 1)],
                                thr[t].regints[ArgR(t, 2)]))]_vars


(***************************************************************************)
(* C11.  In every reachable state every integer register of every thread   *)
(* and the comparator hold a value in the signed 32-bit range              *)
(* [-2^31, 2^31 - 1].                                                      *)
(***************************************************************************)
InInt32(n) == n.hi >= -32768 /\ n.hi <= 32767

C11_Int32Range ==
  \A t \in Threads :
    /\ \A r \in 0..(MAX_REGISTERS - 1) : InInt32(thr[t].regints[r])
    /\ InInt32(thr[t].comparator)

(***************************************************************************)
(* C12.  Attribute consumption: after a show, layer or say has executed,   *)
(* the executing thread's attribute map is empty; every instruction other  *)
(* than attr, show, layer and say leaves the attribute map unchanged.      *)
(***************************************************************************)
Presents(t) == Op_show(t) \/ Op_layer(t) \/ Op_say(t)

C12_AttrConsumed ==
  [][\A t \in Threads :
       /\ (Presents(t) /\ thr'[t].phase = "loop") => thr'[t].attr_list = <<>>
       /\ (ThreadStep(t) /\ ~Presents(t) /\ ~Op_attri(t) /\ ~Op_attrs(t)) =>
            thr'[t].attr_list = thr[t].attr_list]_vars

(***************************************************************************)
(* C13.  Alpha bounds: a show on a loaded slot with an alpha register      *)
(* outside [0,255] terminates the executing thread and leaves the sprite   *)
(* bank as it was; every loaded sprite's alpha is in [0,255] in every      *)
(* reachable state.                                                        *)
(***************************************************************************)
ShowsOutOfRange(t) ==
  /\ Executing(t, "show")
  /\ ~BadReg(ArgR(t, 1)) /\ ~BadReg(ArgR(t, 2))
  /\ PyInRange(thr[t].regints[ArgR(t, 1)], MAX_BANKS)
  /\ sprite_bank[PyIndex(thr[t].regints[ArgR(t, 1)], MAX_BANKS)] # None
  /\ \/ BigLess(thr[t].regints[ArgR(t, 2)], Big(0))
     \/ BigLess(Big(255), thr[t].regints[ArgR(t, 2)])

C13_AlphaBounds ==
  /\ [](\A index \in 0..(MAX_BANKS - 1) :
          sprite_bank[index] # None => sprite_bank[index].alpha \in 0..255)
  /\ [][\A t \in Threads :
          (ShowsOutOfRange(t) /\ Op_show(t)) =>
            /\ thr'[t].phase = "faulted"
            /\ sprite_bank' = sprite_bank]_vars

C13_Witness ==
  \E t \in Threads :
    /\ thr[t].phase = "faulted"
    /\ thr[t].op = OpOf("show")
    /\ thr[t].regints[1] = Big(300)
    /\ sprite_bank[0] # None
    /\ sprite_bank[0].alpha = 128

(***************************************************************************)
(* C14.  Fault isolation on stack underflow: a popi or pops on an empty    *)
(* typed stack, or a ret on an empty call stack, terminates the executing  *)
(* thread and changes none of its registers, stacks, comparator or         *)
(* attributes, no other thread, and neither the thread set nor the sprite  *)
(* bank; a thread that has faulted begins no further instruction.          *)
(***************************************************************************)
Underflows(t) ==
  \/ Executing(t, "popi") /\ thr[t].int_stack = <<>>
  \/ Executing(t, "pops") /\ thr[t].str_stack = <<>>
  \/ Executing(t, "ret") /\ thr[t].call_stack = <<>>

C14_UnderflowIsolated ==
  [][\A t \in Threads :
       /\ (Underflows(t) /\ ThreadStep(t)) =>
            /\ thr'[t].phase = "faulted"
            /\ DataOf(thr'[t]) = DataOf(thr[t])
            /\ thr'[t].call_stack = thr[t].call_stack
            /\ \A u \in Threads \ {t} : thr'[u] = thr[u]
            /\ threads' = threads
            /\ sprite_bank' = sprite_bank
       /\ thr[t].phase = "faulted" =>
            /\ thr'[t].phase \in {"faulted", "collected"}
            /\ thr'[t].phase = "faulted" => DataOf(thr'[t]) = DataOf(thr[t])]_vars

\* Thread 1 has faulted in popi while thread 2, forked beside it, has
\* executed its pushi and is at the head of its loop.
C14_Witness ==
  /\ prog = "under"
  /\ Len(thr) = 2
  /\ thr[1].phase = "faulted"
  /\ thr[1].op = OpOf("popi")
  /\ thr[1].regints[0] = Big(1)
  /\ thr[2].phase = "loop"
  /\ thr[2].running
  /\ thr[2].int_stack = << Big(0) >>

(***************************************************************************)
(* C15.  Fork independence: the thread that Runtime._call_fork(pc)         *)
(* creates starts with PC = pc, empty integer, string and call stacks,     *)
(* all eight integer registers 0, all eight string registers empty,        *)
(* comparator 0 and an empty attribute map, whatever the state of the      *)
(* threads that exist.                                                     *)
(***************************************************************************)
C15_ForkFresh ==
  [][\A pc \in ForkTargets(prog) :
       Runtime_call_fork(pc) =>
         /\ Len(thr') = Len(thr) + 1
         /\ hostnew' = Len(thr')
         /\ thr'[hostnew'].pc = Big(pc)
         /\ thr'[hostnew'].int_stack = <<>>
         /\ thr'[hostnew'].str_stack = <<>>
         /\ thr'[hostnew'].call_stack = <<>>
         /\ \A r \in 0..(MAX_REGISTERS - 1) :
              /\ thr'[hostnew'].regints[r] = Big(0)
              /\ thr'[hostnew'].regstrs[r] = <<>>
         /\ thr'[hostnew'].comparator = Big(0)
         /\ thr'[hostnew'].attr_list = <<>>]_vars

\* The host has forked a thread beside one whose register i0 holds 1.
C15_Witness ==
  /\ hostpc = "fork"
  /\ hostnew = 2
  /\ threads = << 1 >>
  /\ thr[1].regints[0] = Big(1)
  /\ thr[2].phase = "loop"
  /\ \E pc \in ForkTargets(prog) : thr[2].pc = Big(pc)
  /\ thr[2].regints[0] = Big(0)

(***************************************************************************)
(* C16.  Thread locality: a step of thread T changes no other thread's     *)
(* PC, registers, typed stacks, call stack, comparator, attribute map or   *)
(* position; of another thread it can change the running flag only, only   *)
(* by the reset instruction, and only to false.                            *)
(***************************************************************************)
C16_ThreadLocal ==
  [][\A t \in Threads :
       ThreadStep(t) =>
         \A u \in Threads \ {t} :
           /\ [thr'[u] EXCEPT !.running = thr[u].running] = thr[u]
           /\ thr'[u].running # thr[u].running =>
                Op_reset(t) /\ ~thr'[u].running]_vars

\* Thread 2 is inside reset and has stopped thread 1, which had set i0.
C16_Witness ==
  /\ prog = "halt"
  /\ Len(thr) = 2
  /\ thr[2].phase = "clear"
  /\ Listed(1)
  /\ ~thr[1].running
  /\ thr[1].phase \in {"loop", "exec"}
  /\ thr[1].regints[0] = Big(1)
  /\ thr[1].pc # Big(0)

(***************************************************************************)
(* Vocabulary of the assembler's properties.                               *)
(***************************************************************************)
\* The lines of the input that are instructions (neither empty after the
\* comment is stripped, nor a label), as their tokens, in order.
\* The program given as bytes has no source and so no lines.
IsLabelLine(tokens) ==
  Len(tokens) = 1 /\ tokens[1] # <<>> /\ tokens[1][Len(tokens[1])] = ":"
IsInstructionLine(tokens) == Len(tokens) > 0 /\ ~IsLabelLine(tokens)
InstructionLines ==
  IF prog \notin DOMAIN AsmInputs THEN <<>>
  ELSE SelectSeq([j \in 1..Len(AsmInputs[prog]) |->
                    StripSemicolon(AsmInputs[prog][j])],
                 IsInstructionLine)

\* The instructions that the fetch and the operand decoder of run() find in
\* the output file from offset at on, each with the offset of its opcode;
\* an entry with op = -1 ends the stream where no instruction decodes.
RECURSIVE DecodeStream(_)
DecodeStream(at) ==
  IF at >= Len(code) THEN <<>>
  ELSE IF CodeAt(at) \notin DOMAIN opcodes THEN << [at |-> at, op |-> -1] >>
  ELSE LET d == DecodeOperands(opcodes[CodeAt(at)].operands, 1, at, <<>>)
       IN  IF ~d.ok THEN << [at |-> at, op |-> -1] >>
           ELSE << [at |-> at, op |-> CodeAt(at)] >> \o DecodeStream(d.newpc + 1)

\* A source token that is written the way an operand of the kind is.
TokenIsKind(token, operand_type) ==
  CASE operand_type = REGINT ->
         token # <<>> /\ token[1] = "i" /\ IsNumeric(Tail(token))
    [] operand_type = REGSTR ->
         token # <<>> /\ token[1] = "s" /\ IsNumeric(Tail(token))
    [] operand_type = LITINT ->
         IsInt(token) \/ (token # <<>> /\ token[1] = "@")
    [] OTHER -> TRUE

(***************************************************************************)
(* C17.  Assemble/decode round trip: when the assembler has written its    *)
(* output, decoding the file from offset 0 yields one instruction per      *)
(* instruction line of the source, in order, each at the offset where the  *)
(* assembler began that line, with the line's mnemonic, as many operands   *)
(* as the line has operand tokens, and each operand of the kind its token  *)
(* is written as.                                                          *)
(***************************************************************************)
C17_RoundTrip ==
  assembly.at = "written" =>
    LET decoded == DecodeStream(0)
    IN  /\ Len(decoded) = Len(InstructionLines)
        /\ \A k \in 1..Len(InstructionLines) :
             LET tokens == InstructionLines[k]
             IN  /\ decoded[k].op \in DOMAIN opcodes
                 /\ decoded[k].at = assembly.st.starts[k]
                 /\ opcodes[decoded[k].op].asm_name = Join(tokens[1])
                 /\ Len(opcodes[decoded[k].op].operands) = Len(tokens) - 1
                 /\ \A o \in 1..(Len(tokens) - 1) :
                      TokenIsKind(tokens[o + 1], opcodes[decoded[k].op].operands[o])

(***************************************************************************)
(* C18.  Register-to-register string forms: a thread that executes a       *)
(* source line `set sA sB` leaves in R_s[A] the contents of R_s[B], one    *)
(* that executes `concat sA sB` leaves in R_s[A] its contents followed by  *)
(* those of R_s[B]; a thread that has run the program `set s0 "hi "`,      *)
(* `set s1 "there"`, `concat s0 s1` ends with R_s[0] = "hi there".         *)
(***************************************************************************)
\* The instruction line that the assembler began at the offset thread t
\* fetched its opcode from, when t is about to call a handler.
AtLine(t, k) ==
  /\ prog \in DOMAIN Sources
  /\ thr[t].phase = "exec"
  /\ k \in 1..Len(assembly.st.starts)
  /\ assembly.st.starts[k] = thr[t].ipc

\* The line is the mnemonic followed by two string registers.
TwoStringRegisters(tokens, mnemonic) ==
  /\ Len(tokens) = 3
  /\ Join(tokens[1]) = mnemonic
  /\ TokenIsKind(tokens[2], REGSTR)
  /\ TokenIsKind(tokens[3], REGSTR)

RegisterOf(token) == BigSmall(DigitsValue(Tail(token)))

C18_StringRegisterForms ==
  /\ [](prog = "greet" =>
          \A t \in Threads :
            thr[t].phase = "faulted" =>
              thr[t].regstrs[0] = Encode(<<"h", "i", " ", "t", "h", "e", "r", "e">>))
  /\ [][\A t \in Threads : \A k \in 1..Len(InstructionLines) :
          (AtLine(t, k) /\ ThreadStep(t)) =>
            LET tokens == InstructionLines[k]
                A == RegisterOf(tokens[2])
                B == RegisterOf(tokens[3])
            IN  /\ TwoStringRegisters(tokens, "set") =>
                     thr'[t].regstrs[A] = thr[t].regstrs[B]
                /\ TwoStringRegisters(tokens, "concat") =>
                     thr'[t].regstrs[A] = thr[t].regstrs[A] \o thr[t].regstrs[B]]_vars

(***************************************************************************)
(* C19.  LITSTR operand decode: the string that run() passes to a handler  *)
(* for a LITSTR operand is the byte sequence the assembler emitted for     *)
(* the literal (the bytes after the opcode and the operands before it, up  *)
(* to the terminating zero), and when the handler has returned the PC is   *)
(* at the first byte of the next instruction.                              *)
(***************************************************************************)
\* The offset, from the opcode, of the o-th operand of an instruction whose
\* earlier operands are registers or integers.
RECURSIVE OperandOffset(_, _)
OperandOffset(operands, o) ==
  IF o = 1 THEN 1
  ELSE OperandOffset(operands, o - 1)
       + (IF operands[o - 1] = LITINT THEN 4 ELSE 1)

\* The bytes of the output from offset from up to the first zero byte.
LiteralAt(from) ==
  LET end == CHOOSE j \in from..(Len(code) - 1) :
               /\ CodeAt(j) = 0
               /\ \A i \in from..(j - 1) : CodeAt(i) # 0
  IN  SubSeq(code, from + 1, end)

\* Where the instruction after the k-th one starts.
NextStart(k) ==
  IF k < Len(assembly.st.starts) THEN assembly.st.starts[k + 1] ELSE Len(code)

HasLitstr(op) == \E o \in 1..Len(opcodes[op].operands) : opcodes[op].operands[o] = LITSTR

C19_LitstrDecode ==
  /\ [](\A t \in Threads : \A k \in 1..Len(InstructionLines) :
          AtLine(t, k) =>
            \A o \in 1..Len(opcodes[thr[t].op].operands) :
              opcodes[thr[t].op].operands[o] = LITSTR =>
                thr[t].args[o].s =
                  LiteralAt(thr[t].ipc + OperandOffset(opcodes[thr[t].op].operands, o)))
  /\ [][\A t \in Threads : \A k \in 1..Len(InstructionLines) :
          (AtLine(t, k) /\ HasLitstr(thr[t].op) /\ ThreadStep(t)
           /\ thr'[t].phase = "loop") =>
            thr'[t].pc = Big(NextStart(k))]_vars

(***************************************************************************)
(* C20.  Label resolution: in the file of a successful assembly every      *)
(* placeholder recorded for an @label reference holds, little-endian, the  *)
(* output offset at which the label was defined; resolution changes no     *)
(* other byte and not the length of the output; an input with a reference  *)
(* to a label it does not define, or with a label defined twice, fails     *)
(* and no output is written.                                               *)
(***************************************************************************)
SourceLine(j) == StripSemicolon(AsmInputs[prog][j])
LabelName(tokens) == SubSeq(tokens[1], 1, Len(tokens[1]) - 1)
Defines(j, name) == IsLabelLine(SourceLine(j)) /\ LabelName(SourceLine(j)) = name
Defined(name) == \E j \in 1..Len(AsmInputs[prog]) : Defines(j, name)

\* The output offset at the label's line: where the assembler began the
\* first instruction line after it, or the end of the output.
DefinedAt(name) ==
  LET j == CHOOSE i \in 1..Len(AsmInputs[prog]) :
             Defines(i, name) /\ \A h \in 1..(i - 1) : ~Defines(h, name)
      before == Cardinality({i \in 1..(j - 1) : IsInstructionLine(SourceLine(i))})
  IN  IF before < Len(assembly.st.starts) THEN assembly.st.starts[before + 1]
      ELSE Len(assembly.st.output)

\* The line the assembler is at defines a label that an earlier line defined.
AtDuplicate ==
  /\ assembly.n <= Len(AsmInputs[prog])
  /\ IsLabelLine(SourceLine(assembly.n))
  /\ \E h \in 1..(assembly.n - 1) : Defines(h, LabelName(SourceLine(assembly.n)))

\* A placeholder has been recorded for a label that no line defines.
HasUndefined ==
  \E r \in 1..Len(assembly.st.procedure_refs) :
    ~Defined(assembly.st.procedure_refs[r].name)

\* Offset i of the output lies in the placeholder of some reference.
InPlaceholder(i) ==
  \E r \in 1..Len(assembly.st.procedure_refs) :
    i \in assembly.st.procedure_refs[r].location
          ..(assembly.st.procedure_refs[r].location + 3)

C20_LabelResolution ==
  /\ [](assembly.at = "written" =>
          /\ code = assembly.st.output
          /\ \A r \in 1..Len(assembly.st.procedure_refs) :
               LET ref == assembly.st.procedure_refs[r]
               IN  /\ Defined(ref.name)
                   /\ SubSeq(code, ref.location + 1, ref.location + 4)
                        = PackU32(Big(DefinedAt(ref.name))))
  /\ [](assembly.at \in {"write", "written"} \/ code # <<>> =>
          /\ ~HasUndefined
          /\ \A j \in 1..Len(AsmInputs[prog]) : \A h \in 1..(j - 1) :
               IsLabelLine(SourceLine(j)) => ~Defines(h, LabelName(SourceLine(j))))
  /\ [][/\ (Asm_resolve /\ assembly'.at = "write") =>
             /\ Len(assembly'.st.output) = Len(assembly.st.output)
             /\ \A i \in 0..(Len(assembly.st.output) - 1) :
                  ~InPlaceholder(i) =>
                    assembly'.st.output[i + 1] = assembly.st.output[i + 1]
        /\ (Asm_resolve /\ HasUndefined) => assembly'.at = "failed"
        /\ (Asm_line /\ AtDuplicate) => assembly'.at = "failed"
        /\ assembly.at = "failed" => assembly'.at = "failed" /\ code' = <<>>]_vars

\* The file of a source with a backward and two forward references.
C20_Witness ==
  /\ prog = "jumps"
  /\ assembly.at = "written"
  /\ code = assembly.st.output
  /\ Len(assembly.st.procedure_refs) = 3
  /\ \E r \in 1..3 :
       /\ assembly.st.procedure_refs[r].name = <<"f", "w", "d">>
       /\ UnpackU32(SubSeq(code, assembly.st.procedure_refs[r].location + 1,
                           assembly.st.procedure_refs[r].location + 4))
            = Big(Len(code) - 3)

(***************************************************************************)
(* C21.  A thread of the thread set that has terminated on its own (an     *)
(* exception left run(): a fault, an unknown opcode, or the PC past the    *)
(* end of the program) stays in the thread set with its running flag as    *)
(* it was, true when nothing had stopped it, until a reset; while it is    *)
(* in the set, Runtime.start() fails as already running.                   *)
(***************************************************************************)
Resets == Runtime_reset \/ \E u \in Threads : Op_reset(u) \/ Op_reset_clear(u)

C21_FinishedStaysListed ==
  [][\A t \in Threads :
       /\ (thr[t].phase = "faulted" /\ Listed(t) /\ ~Resets) =>
            /\ \E i \in 1..Len(threads') : threads'[i] = t
            /\ thr'[t] = thr[t]
       /\ (thr[t].phase = "faulted" /\ Listed(t) /\ Runtime_start) =>
            /\ hostResult' = "already_running"
            /\ threads' = threads
            /\ thr' = thr
       /\ (thr[t].phase = "exec" /\ thr[t].running /\ ThreadStep(t)
           /\ thr'[t].phase = "faulted") => thr'[t].running]_vars

\* The only thread has run off the end of the program; it is still in the
\* set with running = true, and a second start() has failed.
C21_Witness ==
  /\ threads = << 1 >>
  /\ thr[1].phase = "faulted"
  /\ thr[1].running
  /\ thr[1].pc = Big(Len(code))
  /\ hostResult = "already_running"
  /\ hostCalls = 2

====
